---------------------------- MODULE Spec2Model ----------------------------
(***************************************************************************)
(* A model of the backtracking regular-expression engine of src/main.rs:   *)
(* the pattern compiler (parse_pattern and its helpers), the matcher       *)
(* (MatchContext::match_pattern / match_here / matches_char) and the       *)
(* engine object (RegexEngine::new / match_text).                          *)
(*                                                                         *)
(* A Rust `char` is modelled by its Unicode scalar value (an integer), a   *)
(* pattern by the Vec<char> the parser collects, and a `&str` text by the  *)
(* sequence of its UTF-8 bytes, because the matcher slices texts by BYTE   *)
(* offsets (&text[1..], &text[..len]) and Rust panics when such an offset  *)
(* is not a character boundary.  panic! is modelled as an outcome of its   *)
(* own ("panic"), distinct from both boolean results.                      *)
(***************************************************************************)
EXTENDS Integers, Sequences, FiniteSets, TLC

VARIABLES pattern_str, input, pc, engine, result, context

vars == <<pattern_str, input, pc, engine, result, context>>

(***************************************************************************)
(* Characters.                                                             *)
(***************************************************************************)

\* The scalar value of the characters the model writes its inputs with.
Chr(s) ==
    CASE s = " " -> 32  [] s = "$" -> 36  [] s = "(" -> 40  [] s = ")" -> 41
      [] s = "+" -> 43  [] s = "-" -> 45  [] s = "." -> 46
      [] s = "0" -> 48  [] s = "1" -> 49  [] s = "2" -> 50  [] s = "3" -> 51
      [] s = "9" -> 57  [] s = "?" -> 63
      [] s = "[" -> 91  [] s = "\\" -> 92 [] s = "]" -> 93  [] s = "^" -> 94
      [] s = "_" -> 95
      [] s = "a" -> 97  [] s = "b" -> 98  [] s = "c" -> 99  [] s = "d" -> 100
      [] s = "g" -> 103 [] s = "n" -> 110 [] s = "o" -> 111 [] s = "r" -> 114
      [] s = "t" -> 116 [] s = "w" -> 119 [] s = "x" -> 120 [] s = "|" -> 124
      [] s = "e_acute" -> 233

\* A string of the model, written as a tuple of character names (a character
\* stands for itself; "e_acute" is U+00E9, two bytes in UTF-8).
Str(t) ==
    [k \in 1..Len(t) |-> Chr(t[k])]

\* char::is_ascii_digit
is_ascii_digit(c) ==
    c >= 48 /\ c <= 57

\* char::is_alphanumeric (Alphabetic or Numeric), for scalar values below 256.
is_alphanumeric(c) ==
    \/ c >= 48 /\ c <= 57
    \/ c >= 65 /\ c <= 90
    \/ c >= 97 /\ c <= 122
    \/ c \in {170, 178, 179, 181, 185, 186, 188, 189, 190}
    \/ c >= 192 /\ c <= 255 /\ c # 215 /\ c # 247

\* The UTF-8 encoding of one char (String / &str store these bytes).
Utf8(c) ==
    IF c < 128 THEN <<c>>
    ELSE IF c < 2048 THEN <<192 + (c \div 64), 128 + (c % 64)>>
    ELSE IF c < 65536
         THEN <<224 + (c \div 4096), 128 + ((c \div 64) % 64), 128 + (c % 64)>>
    ELSE <<240 + (c \div 262144), 128 + ((c \div 4096) % 64),
           128 + ((c \div 64) % 64), 128 + (c % 64)>>

RECURSIVE Encode(_)
\* The &str holding the chars cs: the concatenation of their encodings.
Encode(cs) ==
    IF cs = <<>> THEN <<>> ELSE Utf8(Head(cs)) \o Encode(Tail(cs))

\* str::chars().next().unwrap(): the first char of a non-empty &str.
FirstChar(text) ==
    LET b == text[1] IN
    IF b < 128 THEN b
    ELSE IF b < 224 THEN (b - 192) * 64 + (text[2] - 128)
    ELSE IF b < 240
         THEN (b - 224) * 4096 + (text[2] - 128) * 64 + (text[3] - 128)
    ELSE (b - 240) * 262144 + (text[2] - 128) * 4096
         + (text[3] - 128) * 64 + (text[4] - 128)

\* str::is_char_boundary(k), k a byte offset (0-based): the test the slicing
\* operators &text[k..] and &text[..k] make before they panic.
is_char_boundary(text, k) ==
    \/ k = 0
    \/ k = Len(text)
    \/ k < Len(text) /\ ~(text[k + 1] >= 128 /\ text[k + 1] < 192)

\* &text[k..] when k is a char boundary.
SliceFrom(text, k) ==
    SubSeq(text, k + 1, Len(text))

\* &text[..k] when k is a char boundary.
SliceTo(text, k) ==
    SubSeq(text, 1, k)

\* str::starts_with(prefix)
starts_with(text, prefix) ==
    /\ Len(prefix) <= Len(text)
    /\ SubSeq(text, 1, Len(prefix)) = prefix

(***************************************************************************)
(* enum RE                                                                 *)
(***************************************************************************)
Char(c) == [t |-> "Char", c |-> c]
Question(re) == [t |-> "Question", re |-> re]
Plus(re) == [t |-> "Plus", re |-> re]
Dot == [t |-> "Dot"]
Start == [t |-> "Start"]
End == [t |-> "End"]
CharClass(class) == [t |-> "CharClass", class |-> class]
NegCharClass(class) == [t |-> "NegCharClass", class |-> class]
Digit == [t |-> "Digit"]
Word == [t |-> "Word"]
Alternation(left, right) == [t |-> "Alternation", left |-> left, right |-> right]
Group(group_pattern) == [t |-> "Group", pattern |-> group_pattern]
Backreference(group_index) == [t |-> "Backreference", n |-> group_index]

\* Vec<char>::contains
contains(class, c) ==
    \E k \in 1..Len(class) : class[k] = c

(***************************************************************************)
(* The pattern compiler.  Indices are 0-based as in the source: chars[i]   *)
(* of the source is At(chars, i).  A panic! of the parser is the record    *)
(* ParseError, which carries no AST.  A parsing step returns the nodes so  *)
(* far (result) and the index i the loop goes on from.                     *)
(***************************************************************************)
At(chars, i) == chars[i + 1]

ParseError == [err |-> TRUE]

\* parse_escape with every other escaped char taken as a literal instead of
\* the panic.
parse_escape_lenient(c) ==
    CASE c = Chr("d") -> [err |-> FALSE, re |-> Digit]
      [] c = Chr("w") -> [err |-> FALSE, re |-> Word]
      [] c >= Chr("1") /\ c <= Chr("9") ->
            [err |-> FALSE, re |-> Backreference(c - Chr("0"))]
      [] OTHER -> [err |-> FALSE, re |-> Char(c)]

\* The escape match of parse_pattern and parse_sequence: the node for the
\* char that follows a backslash, or a panic.
parse_escape(c) ==
    CASE c = Chr("d") -> [err |-> FALSE, re |-> Digit]
      [] c = Chr("w") -> [err |-> FALSE, re |-> Word]
      [] c >= Chr("1") /\ c <= Chr("9") ->
            [err |-> FALSE, re |-> Backreference(c - Chr("0"))]
      [] c = Chr("\\") -> [err |-> FALSE, re |-> Char(Chr("\\"))]
      [] OTHER -> ParseError

RECURSIVE char_range(_, _)
\* for c in start..=end { class.push(c) }
char_range(start, end) ==
    IF start > end THEN <<>> ELSE <<start>> \o char_range(start + 1, end)

RECURSIVE parse_char_class_loop(_, _, _)
\* The while loop of parse_char_class, from index i with the class so far.
parse_char_class_loop(chars, i, class) ==
    IF ~(i < Len(chars)) THEN ParseError
    ELSE IF At(chars, i) = Chr("]")
         THEN [err |-> FALSE, class |-> class, end_idx |-> i]
    ELSE IF i + 2 < Len(chars) /\ At(chars, i + 1) = Chr("-")
            /\ At(chars, i + 2) # Chr("]")
         THEN parse_char_class_loop(chars, i + 3,
                  class \o char_range(At(chars, i), At(chars, i + 2)))
    ELSE parse_char_class_loop(chars, i + 1, Append(class, At(chars, i)))

parse_char_class(chars, start) ==
    parse_char_class_loop(chars, start, <<>>)

\* result.push(node); i = end_idx; then the loop's i += 1.  r is what
\* parse_char_class or parse_alternation returned, made a node by then.
push_node(r, result_) ==
    IF r.err THEN ParseError
    ELSE [err |-> FALSE, result |-> Append(result_, r.re), i |-> r.end_idx + 1]

\* RE::CharClass(class) or RE::NegCharClass(class) of a parsed class.
class_node(r, negated) ==
    IF r.err THEN ParseError
    ELSE [err |-> FALSE, end_idx |-> r.end_idx,
          re |-> IF negated THEN NegCharClass(r.class) ELSE CharClass(r.class)]

\* The '[' arm of parse_pattern and parse_sequence.
parse_class(chars, i, result_) ==
    IF i + 1 < Len(chars) /\ At(chars, i + 1) = Chr("^")
    THEN push_node(class_node(parse_char_class(chars, i + 2), TRUE), result_)
    ELSE push_node(class_node(parse_char_class(chars, i + 1), FALSE), result_)

\* The '\\' arm: the escape's node is pushed and both chars are consumed.
push_escape(e, i, result_) ==
    IF e.err THEN ParseError
    ELSE [err |-> FALSE, result |-> Append(result_, e.re), i |-> i + 2]

\* The '?' and '+' arms: wrap the node popped from result, or panic.
parse_quantifier(ch, i, result_) ==
    IF result_ = <<>> THEN ParseError
    ELSE [err |-> FALSE, i |-> i + 1,
          result |-> Append(SubSeq(result_, 1, Len(result_) - 1),
                            IF ch = Chr("?") THEN Question(result_[Len(result_)])
                            ELSE Plus(result_[Len(result_)]))]

\* One turn of the `match chars[i]` of parse_pattern and parse_sequence for
\* every char but '(' (and '|', ')' inside a group): the arms are the same in
\* both functions.
parse_atom(chars, i, result_) ==
    CASE At(chars, i) = Chr("^") ->
             [err |-> FALSE, result |-> Append(result_, Start), i |-> i + 1]
      [] At(chars, i) = Chr("$") ->
             [err |-> FALSE, result |-> Append(result_, End), i |-> i + 1]
      [] At(chars, i) = Chr(".") ->
             [err |-> FALSE, result |-> Append(result_, Dot), i |-> i + 1]
      [] At(chars, i) = Chr("\\") ->
             IF i + 1 < Len(chars)
             THEN push_escape(parse_escape(At(chars, i + 1)), i, result_)
             ELSE ParseError
      [] At(chars, i) = Chr("[") -> parse_class(chars, i, result_)
      [] At(chars, i) = Chr("?") \/ At(chars, i) = Chr("+") ->
             parse_quantifier(At(chars, i), i, result_)
      [] OTHER ->
             [err |-> FALSE, result |-> Append(result_, Char(At(chars, i))),
              i |-> i + 1]

RECURSIVE parse_sequence_loop(_, _, _)
RECURSIVE parse_alternation(_, _)

\* The next turn of parse_sequence's loop after a step s, unless s panicked.
parse_sequence_next(chars, s) ==
    IF s.err THEN ParseError ELSE parse_sequence_loop(chars, s.i, s.result)

\* The while loop of parse_sequence, from index i with the nodes so far;
\* returns the nodes and the index of the '|' or ')' (or the end) it stops at.
parse_sequence_loop(chars, i, result_) ==
    IF ~(i < Len(chars)) THEN [err |-> FALSE, result |-> result_, i |-> i]
    ELSE IF At(chars, i) = Chr("|") \/ At(chars, i) = Chr(")")
         THEN [err |-> FALSE, result |-> result_, i |-> i]
    ELSE IF At(chars, i) = Chr("(")
         THEN parse_sequence_next(chars,
                  push_node(parse_alternation(chars, i + 1), result_))
    ELSE parse_sequence_next(chars, parse_atom(chars, i, result_))

parse_sequence(chars, i) ==
    parse_sequence_loop(chars, i, <<>>)

\* parse_alternation after its right side r: the ')' must follow.
alternation_right(chars, l, r) ==
    IF r.err THEN ParseError
    ELSE IF r.i < Len(chars) /\ At(chars, r.i) = Chr(")")
         THEN [err |-> FALSE, end_idx |-> r.i,
               re |-> Group(<<Alternation(l.result, r.result)>>)]
    ELSE ParseError

\* parse_alternation after its left side l: a '|' and a right side, or ')'.
alternation_left(chars, l) ==
    IF l.err THEN ParseError
    ELSE IF l.i < Len(chars) /\ At(chars, l.i) = Chr("|")
         THEN alternation_right(chars, l, parse_sequence(chars, l.i + 1))
    ELSE IF l.i < Len(chars) /\ At(chars, l.i) = Chr(")")
         THEN [err |-> FALSE, end_idx |-> l.i, re |-> Group(l.result)]
    ELSE ParseError

\* One group body after its '(': a sequence, or two sequences around one '|',
\* closed by ')'.
parse_alternation(chars, start) ==
    alternation_left(chars, parse_sequence(chars, start))

\* parse_pattern's '(' arm: insert RE::Start at the head of the group when the
\* node before the group is RE::Start.
prepend_start(r, result_) ==
    IF r.err THEN ParseError
    ELSE IF result_ # <<>> /\ result_[Len(result_)] = Start
         THEN [r EXCEPT !.re = Group(<<Start>> \o r.re.pattern)]
    ELSE r

RECURSIVE parse_pattern_loop(_, _, _)

\* The next turn of parse_pattern's loop after a step s, unless s panicked.
parse_pattern_next(chars, s) ==
    IF s.err THEN ParseError ELSE parse_pattern_loop(chars, s.i, s.result)

\* The while loop of parse_pattern, from index i with the nodes so far.
parse_pattern_loop(chars, i, result_) ==
    IF ~(i < Len(chars)) THEN [err |-> FALSE, result |-> result_]
    ELSE IF At(chars, i) = Chr("(")
         THEN parse_pattern_next(chars,
                  push_node(prepend_start(parse_alternation(chars, i + 1), result_),
                            result_))
    ELSE parse_pattern_next(chars, parse_atom(chars, i, result_))

\* parse_pattern(pattern): the AST of the pattern's chars, or a panic.
parse_pattern(chars) ==
    parse_pattern_loop(chars, 0, <<>>)

(***************************************************************************)
(* struct MatchContext and the matcher.  A call of match_pattern or        *)
(* match_here on a context `self` is modelled by the record                *)
(*   [ok, panic, ctx]                                                      *)
(* where ctx is `self` as the call leaves it (the source passes &mut self) *)
(* and panic says that the call unwound instead of returning.              *)
(***************************************************************************)

\* MatchContext::new(text)
MatchContext_new(text) ==
    [text |-> text, captures |-> <<>>, group_index |-> 0]

Matched(ctx) == [ok |-> TRUE, panic |-> FALSE, ctx |-> ctx]
Failed(ctx) == [ok |-> FALSE, panic |-> FALSE, ctx |-> ctx]
Panicked(ctx) == [ok |-> FALSE, panic |-> TRUE, ctx |-> ctx]

\* HashMap::insert
insert(captures, k, v) ==
    [j \in (DOMAIN captures) \cup {k} |-> IF j = k THEN v ELSE captures[j]]

\* MatchContext::matches_char
matches_char(re, c) ==
    CASE re.t = "Char" -> re.c = c
      [] re.t = "Dot" -> TRUE
      [] re.t = "Digit" -> is_ascii_digit(c)
      [] re.t = "Word" -> is_alphanumeric(c)
      [] re.t = "CharClass" -> contains(re.class, c)
      [] re.t = "NegCharClass" -> ~contains(re.class, c)
      [] OTHER -> FALSE

RECURSIVE match_pattern(_, _)
RECURSIVE match_here(_, _)
RECURSIVE match_pattern_loop(_, _, _)
RECURSIVE match_plus_loop(_, _, _, _)
RECURSIVE match_group_loop(_, _, _, _, _)

\* if local_context.match_here(..) { *self = local_context; return true }
\* false -- r is the call's outcome on the clone, self is untouched by it.
commit(self, r) ==
    IF r.panic THEN Panicked(self)
    ELSE IF r.ok THEN Matched(r.ctx)
    ELSE Failed(self)

\* The step every single-character arm ends with: clone self, drop the first
\* BYTE of the text (&self.text[1..], which panics inside a multi-byte char),
\* match the rest of the pattern, and commit the clone on success.
advance_one(self, rest) ==
    IF ~is_char_boundary(self.text, 1) THEN Panicked(self)
    ELSE commit(self, match_here([self EXCEPT !.text = SliceFrom(self.text, 1)],
                                 rest))

\* RE::End arm: the result is whether the text is empty; pattern[1..] is not
\* looked at.
match_end(self, rest) ==
    IF self.text = <<>> THEN Matched(self) ELSE Failed(self)

\* RE::Char, RE::Dot, RE::CharClass, RE::NegCharClass, RE::Digit, RE::Word
\* arms: one character that satisfies the node, then the rest.
match_single(self, re, rest) ==
    IF self.text # <<>> /\ matches_char(re, FirstChar(self.text))
    THEN advance_one(self, rest)
    ELSE Failed(self)

\* RE::Question arm after self.match_here(&pattern[1..]) returned r0 (the call
\* is made on self itself, so r0.ctx is self from then on): done if it
\* matched, else one character is consumed and the rest is tried again.
question_retry(self, r0, re, rest) ==
    IF r0.panic THEN Panicked(self)
    ELSE IF r0.ok THEN Matched(r0.ctx)
    ELSE IF r0.ctx.text # <<>> /\ matches_char(re, FirstChar(r0.ctx.text))
         THEN advance_one(r0.ctx, rest)
    ELSE Failed(r0.ctx)

\* RE::Question arm.
match_question(self, re, rest) ==
    question_retry(self, match_here(self, rest), re, rest)

\* The loop of the RE::Plus arm after local_context.match_here(&pattern[1..])
\* returned r: done if it matched, else one more character that satisfies re.
plus_next(self, r, re, rest) ==
    IF r.panic THEN Panicked(self)
    ELSE IF r.ok THEN Matched(r.ctx)
    ELSE IF r.ctx.text = <<>> \/ ~matches_char(re, FirstChar(r.ctx.text))
         THEN Failed(self)
    ELSE IF ~is_char_boundary(r.ctx.text, 1) THEN Panicked(self)
    ELSE match_plus_loop(self, [r.ctx EXCEPT !.text = SliceFrom(r.ctx.text, 1)],
                         re, rest)

\* The loop of the RE::Plus arm on local_context.
match_plus_loop(self, local_context, re, rest) ==
    plus_next(self, match_here(local_context, rest), re, rest)

\* RE::Plus arm.
match_plus(self, re, rest) ==
    IF self.text # <<>> /\ matches_char(re, FirstChar(self.text))
    THEN IF ~is_char_boundary(self.text, 1) THEN Panicked(self)
         ELSE match_plus_loop(self,
                  [self EXCEPT !.text = SliceFrom(self.text, 1)], re, rest)
    ELSE Failed(self)

\* match_backreference with a group that has no capture taken as the empty
\* string instead of a failure.
match_backreference_unset_is_empty(self, group_index, rest) ==
    IF group_index \in DOMAIN self.captures
    THEN IF starts_with(self.text, self.captures[group_index])
         THEN commit(self,
                  match_here([self EXCEPT !.text =
                                 SliceFrom(self.text,
                                           Len(self.captures[group_index]))],
                             rest))
         ELSE Failed(self)
    ELSE commit(self, match_here(self, rest))

\* RE::Backreference arm.
match_backreference(self, group_index, rest) ==
    IF group_index \in DOMAIN self.captures
    THEN IF starts_with(self.text, self.captures[group_index])
         THEN commit(self,
                  match_here([self EXCEPT !.text =
                                 SliceFrom(self.text,
                                           Len(self.captures[group_index]))],
                             rest))
         ELSE Failed(self)
    ELSE Failed(self)

\* The group's own number: self.group_index += 1; let group_index = ...
next_group_index(self) ==
    self.group_index + 1

\* group_restore without the line that restores the counter.
group_restore_captures_only(self, original_captures, original_group_index) ==
    [self EXCEPT !.captures = original_captures]

\* What the RE::Group arm does to self when every length failed:
\* self.captures = original_captures; self.group_index = original_group_index.
group_restore(self, original_captures, original_group_index) ==
    [self EXCEPT !.captures = original_captures,
                 !.group_index = original_group_index]

\* Whether the inner pattern accepts the candidate slice: the arm calls
\* match_pattern on a clone whose text is the slice.
group_inner(local_context, group_pattern) ==
    match_pattern(local_context, group_pattern)

\* One candidate length after the rest of the pattern returned r2 on the
\* clone: done if it matched, else the next length.
group_rest(self, len, group_pattern, rest, group_index, r2) ==
    IF r2.panic THEN Panicked(self)
    ELSE IF r2.ok THEN Matched(r2.ctx)
    ELSE match_group_loop(self, len + 1, group_pattern, rest, group_index)

\* One candidate length after the inner pattern returned r on the clone: if it
\* matched, the slice is recorded under group_index and the rest of the
\* pattern is matched after the slice; else the next length.
group_try(self, len, group_pattern, rest, group_index, r) ==
    IF r.panic THEN Panicked(self)
    ELSE IF r.ok
         THEN group_rest(self, len, group_pattern, rest, group_index,
                  match_here([r.ctx EXCEPT
                                 !.captures = insert(@, group_index,
                                                     SliceTo(self.text, len)),
                                 !.text = SliceFrom(self.text, len)],
                             rest))
    ELSE match_group_loop(self, len + 1, group_pattern, rest, group_index)

\* The for loop of the RE::Group arm, from candidate length len (in bytes);
\* self already carries the incremented group_index.
match_group_loop(self, len, group_pattern, rest, group_index) ==
    IF len > Len(self.text) THEN Failed(self)
    ELSE IF ~is_char_boundary(self.text, len) THEN Panicked(self)
    ELSE group_try(self, len, group_pattern, rest, group_index,
             group_inner([self EXCEPT !.text = SliceTo(self.text, len)],
                         group_pattern))

\* The end of the RE::Group arm: r is the loop's outcome on self with the
\* incremented counter; when no length matched, self is restored.
group_finish(self, r) ==
    IF r.panic THEN Panicked(self)
    ELSE IF r.ok THEN Matched(r.ctx)
    ELSE Failed(group_restore(r.ctx, self.captures, self.group_index))

\* RE::Group arm.
match_group(self, group_pattern, rest) ==
    group_finish(self,
        match_group_loop([self EXCEPT !.group_index = next_group_index(self)],
                         0, group_pattern, rest, next_group_index(self)))

\* RE::Alternation arm after left returned l on a clone: done if it matched,
\* else right on a fresh clone of self.
alternation_right_arm(self, l, right) ==
    IF l.panic THEN Panicked(self)
    ELSE IF l.ok THEN Matched(l.ctx)
    ELSE commit(self, match_pattern(self, right))

\* RE::Alternation arm: left, then right, each by match_pattern on a clone of
\* self; pattern[1..] is not looked at.
match_alternation(self, left, right) ==
    alternation_right_arm(self, match_pattern(self, left), right)

\* MatchContext::match_here
match_here(self, pattern) ==
    IF pattern = <<>> THEN Matched(self)
    ELSE CASE pattern[1].t = "End" -> match_end(self, Tail(pattern))
           [] pattern[1].t \in {"Char", "Dot", "CharClass", "NegCharClass",
                                "Digit", "Word"} ->
                  match_single(self, pattern[1], Tail(pattern))
           [] pattern[1].t = "Question" ->
                  match_question(self, pattern[1].re, Tail(pattern))
           [] pattern[1].t = "Plus" ->
                  match_plus(self, pattern[1].re, Tail(pattern))
           [] pattern[1].t = "Backreference" ->
                  match_backreference(self, pattern[1].n, Tail(pattern))
           [] pattern[1].t = "Group" ->
                  match_group(self, pattern[1].pattern, Tail(pattern))
           [] pattern[1].t = "Alternation" ->
                  match_alternation(self, pattern[1].left, pattern[1].right)
           [] OTHER -> Failed(self)

\* The loop of match_pattern after match_here returned r on the clone at
\* text_slice: done if it matched, else on by one BYTE (&text_slice[1..]).
pattern_next(self, text_slice, pattern, r) ==
    IF r.panic THEN Panicked(self)
    ELSE IF r.ok THEN Matched(r.ctx)
    ELSE IF text_slice = <<>> THEN Failed(self)
    ELSE IF ~is_char_boundary(text_slice, 1) THEN Panicked(self)
    ELSE match_pattern_loop(self, SliceFrom(text_slice, 1), pattern)

\* The loop of match_pattern: match_here on a clone at each start offset.
match_pattern_loop(self, text_slice, pattern) ==
    pattern_next(self, text_slice, pattern,
                 match_here([self EXCEPT !.text = text_slice], pattern))

\* MatchContext::match_pattern
match_pattern(self, pattern) ==
    IF pattern # <<>> /\ pattern[1].t = "Start"
    THEN match_here(self, Tail(pattern))
    ELSE match_pattern_loop(self, self.text, pattern)

(***************************************************************************)
(* struct RegexEngine and the state machine: an engine is built from a     *)
(* pattern (RegexEngine::new, which panics when parse_pattern does) and    *)
(* then asked once whether a text matches (RegexEngine::match_text).       *)
(***************************************************************************)

\* RegexEngine::match_text(text), text given as its chars.
match_text(pattern, text) ==
    match_pattern(MatchContext_new(Encode(text)), pattern)

\* The value of engine while no RegexEngine exists.
NoEngine == <<[t |-> "NoEngine"]>>

\* The value of context while match_text has not returned.
NoContext == [text |-> <<>>, captures |-> <<>>, group_index |-> -1]

(***************************************************************************)
(* The inputs the model is run on.                                         *)
(***************************************************************************)

\* Longest generated text and longest generated literal, in chars.
MaxTextLen == 3
MaxLiteralLen == 2

\* All sequences over alphabet of length at most n.
SeqsUpTo(alphabet, n) ==
    UNION {[1..k -> alphabet] : k \in 0..n}

TextAlphabet == {Chr("a"), Chr("b"), Chr("c"), Chr("e_acute")}
LiteralAlphabet == {Chr("a"), Chr("b"), Chr("e_acute")}

\* Literal-only patterns L, and each of them anchored as ^L$.
Literals == SeqsUpTo(LiteralAlphabet, MaxLiteralLen)
Anchored(L) == <<Chr("^")>> \o L \o <<Chr("$")>>
LiteralPatterns == Literals \cup {Anchored(L) : L \in Literals}

P_AnchoredAlt == Str(<<"^", "(", "a", "|", "b", ")", "$">>)
P_CatDog ==
    Str(<<"(", "c", "a", "t", "|", "d", "o", "g", ")",
          " ", "a", "n", "d", " ", "\\", "1">>)
P_Nested3 == Str(<<"(", "(", "a", ")", "|", "b", ")", "(", "c", ")", "\\", "3">>)
P_Nested == Str(<<"(", "(", "a", ")", "|", "b", ")", "(", "c", ")">>)
P_AnchoredAbc == Str(<<"^", "a", "b", "c", "$">>)
P_CaPlusT == Str(<<"c", "a", "+", "t">>)
P_EndThenLiteral == Str(<<"a", "$", "b">>)

ExamplePatterns ==
    { P_AnchoredAlt, P_CatDog, P_Nested3, P_Nested, P_AnchoredAbc, P_CaPlusT,
      P_EndThenLiteral,
      Str(<<"$", "a">>),
      Str(<<"^", "$", "b">>),
      Str(<<"(", "a", ")", "\\", "1">>),
      Str(<<"(", "a", "|", "b", ")", "\\", "1", "c">>),
      Str(<<"(", "a", ")", "\\", "2">>),
      Str(<<"\\", "1", "a">>),
      Str(<<"\\", "1", "(", "a", ")">>),
      Str(<<"(", "a", "+", ")", "b", "\\", "1">>),
      Str(<<"(", "(", "a", ")", "b", "|", "\\", "2", ")">>),
      Str(<<"^", "(", "(", "a", ")", "b", "|", "\\", "2", ")">>),
      Str(<<"^", "(", "a", ")", "(", "b", ")", "c">>),
      Str(<<"^", "(", "a", ")", "?", "(", "b", ")", "c">>),
      Str(<<"^", "a", "?", "(", "b", ")", "c">>),
      Str(<<".", "+">>),
      Str(<<".", "+", "b">>),
      Str(<<"a", "+", "b">>),
      Str(<<"^", "a", "+", "a">>),
      Str(<<"[", "a", "b", "]", "+", "c">>),
      Str(<<"[", "^", "a", "]", "+", "a">>),
      Str(<<"\\", "w", "+", "b">>),
      Str(<<"a", "?", "b">>) }

ExampleTexts ==
    { Str(<<"c", "a", "t", " ", "a", "n", "d", " ", "c", "a", "t">>),
      Str(<<"d", "o", "g", " ", "a", "n", "d", " ", "d", "o", "g">>),
      Str(<<"c", "a", "t", " ", "a", "n", "d", " ", "d", "o", "g">>),
      Str(<<"d", "o", "g", " ", "a", "n", "d", " ", "c", "a", "t">>),
      Str(<<"c", "a", "t">>), Str(<<"c", "a", "a", "a", "t">>),
      Str(<<"c", "t">>),
      Str(<<"a", "b", "c">>), Str(<<"x", "a", "b", "c">>),
      Str(<<"a", "b", "c", "x">>),
      Str(<<"b", "c">>), Str(<<"a", "c">>), Str(<<"b", "c", "c">>),
      Str(<<"a", "c", "c">>), Str(<<"a", "b", "c", "c">>) }

Patterns == LiteralPatterns \cup ExamplePatterns
Texts == SeqsUpTo(TextAlphabet, MaxTextLen) \cup ExampleTexts

(***************************************************************************)
(* The state machine.                                                      *)
(*   pattern_str  the pattern's chars (the argument of RegexEngine::new)   *)
(*   input        the text's chars (the argument of match_text)            *)
(*   pc           "new" -> "ready" -> "done", or "panicked"                *)
(*   engine       RegexEngine.pattern, once built                          *)
(*   result       "none", then "match" | "nomatch" | "panic"               *)
(*   context      the MatchContext of match_text as match_pattern left it  *)
(***************************************************************************)
Init ==
    /\ pattern_str \in Patterns
    /\ input \in Texts
    /\ pc = "new"
    /\ engine = NoEngine
    /\ result = "none"
    /\ context = NoContext

\* RegexEngine::new(pattern): the engine holds the parsed pattern; a panic of
\* parse_pattern unwinds and no engine exists.
New ==
    /\ pc = "new"
    /\ \E p \in {parse_pattern(pattern_str)} :
       IF p.err
       THEN /\ pc' = "panicked"
            /\ UNCHANGED engine
       ELSE /\ pc' = "ready"
            /\ engine' = p.result
    /\ UNCHANGED <<pattern_str, input, result, context>>

\* RegexEngine::match_text(text)
MatchText ==
    /\ pc = "ready"
    /\ \E r \in {match_text(engine, input)} :
       IF r.panic
       THEN /\ pc' = "panicked"
            /\ result' = "panic"
            /\ UNCHANGED context
       ELSE /\ pc' = "done"
            /\ result' = (IF r.ok THEN "match" ELSE "nomatch")
            /\ context' = r.ctx
    /\ UNCHANGED <<pattern_str, input, engine>>

Next ==
    \/ New
    \/ MatchText

Spec == Init /\ [][Next]_vars

(***************************************************************************)
(* The compiler on its own: every pattern over CompileAlphabet up to       *)
(* MaxPatternLen chars, and some longer ones, each matched against a short *)
(* text when it compiles.                                                  *)
(***************************************************************************)
MaxPatternLen == 4

CompileAlphabet ==
    {Chr("a"), Chr("\\"), Chr("1"), Chr("["), Chr("]"), Chr("("), Chr(")"),
     Chr("|"), Chr("?"), Chr("^"), Chr("-")}

CompileExamples ==
    { Str(<<"(", "a", "|", "b", "|", "c", ")">>),
      Str(<<"(", "a", "|", "(", "b", "|", "c", ")", "|", "d", ")">>),
      Str(<<"(", "(", "a", "|", "b", ")", "|", "c", ")">>),
      Str(<<"(", "a", "|", "b", ")", "|", "c">>),
      Str(<<"(", "a", "|", "+", "b", ")">>),
      Str(<<"(", "a", ")", "(", "+", ")">>),
      Str(<<"(", "[", ")", "]">>),
      Str(<<"(", "[", ")", "]", ")">>),
      Str(<<"[", "a", "-", "]">>),
      Str(<<"[", "a", "-", "c", "]">>),
      Str(<<"[", "c", "-", "a", "]", "+">>),
      Str(<<"[", "^", "]">>),
      Str(<<"[", "^">>),
      Str(<<"[", "^", "a", "-">>),
      Str(<<"[", "\\", "]">>),
      Str(<<"[", "?", "(", "]">>),
      Str(<<"\\", "d", "\\", "w", "\\", "9">>),
      Str(<<"\\", "0">>),
      Str(<<"\\", "n">>),
      Str(<<"\\", "e_acute">>),
      Str(<<"\\", "\\", "n">>),
      Str(<<"\\", "\\", "\\">>),
      Str(<<"a", "\\", ".">>),
      Str(<<"+">>),
      Str(<<"^", "+">>),
      Str(<<"$", "?", "+">>),
      Str(<<"e_acute", "+", ".", "?">>),
      Str(<<"(", "\\", ")">>),
      Str(<<"a", ")">>),
      Str(<<"|", "+">>) } \cup ExamplePatterns

InitCompile ==
    /\ pattern_str \in SeqsUpTo(CompileAlphabet, MaxPatternLen) \cup CompileExamples
    /\ input \in {Str(<<"a">>)}
    /\ pc = "new"
    /\ engine = NoEngine
    /\ result = "none"
    /\ context = NoContext

SpecCompile == InitCompile /\ [][Next]_vars

(***************************************************************************)
(* Vocabulary of the properties.                                           *)
(***************************************************************************)

\* match_text was called and ended, by returning or by a panic.
Finished == result # "none"

\* The chars the compiler gives a meaning to.
Metacharacters ==
    {Chr("^"), Chr("$"), Chr("."), Chr("\\"), Chr("["), Chr("]"), Chr("("),
     Chr(")"), Chr("|"), Chr("?"), Chr("+")}

IsLiteralOnly(chars) ==
    \A k \in 1..Len(chars) : chars[k] \notin Metacharacters

\* pat occurs in text as a contiguous run of chars.
Occurs(pat, text) ==
    \E o \in 0..(Len(text) - Len(pat)) : SubSeq(text, o + 1, o + Len(pat)) = pat

\* The chars of text from char offset p on, and the context that starts a
\* match there with the given captures and counter.
Suffix(text, p) == SubSeq(text, p + 1, Len(text))
ContextAt(text, p, captures, group_index) ==
    [text |-> Encode(Suffix(text, p)), captures |-> captures,
     group_index |-> group_index]

\* Every node sequence the matcher can be called on for a pattern: the
\* suffixes of the pattern, of its groups' patterns and of its alternations'
\* arms.
RECURSIVE Sequences(_)
Sequences(pattern) ==
    {SubSeq(pattern, i, Len(pattern)) : i \in 1..(Len(pattern) + 1)}
    \cup UNION {IF pattern[i].t = "Group" THEN Sequences(pattern[i].pattern)
                ELSE IF pattern[i].t = "Alternation"
                     THEN Sequences(pattern[i].left)
                          \cup Sequences(pattern[i].right)
                ELSE {} : i \in 1..Len(pattern)}

T_a == Str(<<"a">>)
T_b == Str(<<"b">>)
T_ab == Str(<<"a", "b">>)
T_cat == Str(<<"c", "a", "t">>)
T_dog == Str(<<"d", "o", "g">>)
T_and == Str(<<" ", "a", "n", "d", " ">>)

----------------------------------------------------------------------------
\* C1: a Group accepts a candidate prefix only if its inner sequence matches
\* the whole prefix, so ^(a|b)$ matches exactly the texts "a" and "b" and no
\* other text (not "ab", not "").
C1_GroupMatchesWholePrefix ==
    (Finished /\ pattern_str = P_AnchoredAlt)
        => /\ (result = "match") <=> (input \in {T_a, T_b})
           /\ result = "match"
                 => context.captures[1] \in {Encode(T_a), Encode(T_b)}

----------------------------------------------------------------------------
\* C2: Backreference(n) at a text position succeeds iff group n has a recorded
\* capture s, the remaining text starts with s, and the rest of the pattern
\* matches after s; with no recorded capture it fails.  (cat|dog) and \1
\* matches "X and Y", X and Y in {cat, dog}, iff X = Y.
C2_Backreference ==
    /\ (Finished /\ pattern_str = P_CatDog)
         => \A X \in {T_cat, T_dog} : \A Y \in {T_cat, T_dog} :
               input = X \o T_and \o Y => ((result = "match") <=> (X = Y))
    /\ Finished =>
         \A i \in 1..Len(engine) :
            engine[i].t = "Backreference" =>
              \A p \in 0..Len(input) :
                \A captures \in
                      {<<>>} \cup
                      {insert(<<>>, n, Encode(SubSeq(input, lo, hi))) :
                          n \in {engine[i].n, engine[i].n + 1},
                          lo \in 1..Len(input), hi \in 0..Len(input)} :
                  LET ctx == ContextAt(input, p, captures, Cardinality(DOMAIN captures))
                      R == SubSeq(engine, i + 1, Len(engine))
                      n == engine[i].n
                  IN  match_here(ctx, <<engine[i]>> \o R).ok
                        <=> /\ n \in DOMAIN captures
                            /\ starts_with(ctx.text, captures[n])
                            /\ match_here(
                                 [ctx EXCEPT !.text =
                                     SliceFrom(ctx.text, Len(captures[n]))],
                                 R).ok

\* (cat|dog) and \1 has matched "cat and cat": the backreference repeated the
\* capture of group 1.
C2_Witness ==
    /\ pattern_str = P_CatDog
    /\ input = T_cat \o T_and \o T_cat
    /\ result = "match"
    /\ context.captures = <<Encode(T_cat)>>

----------------------------------------------------------------------------
\* C3: a group's capture is recorded under the position of its opening
\* parenthesis in the pattern source, whatever arms were taken: in
\* ((a)|b)(c)\3 the group (c) is group 3 on every text, and the pattern
\* matches "bcc".
C3_ParseTimeGroupNumbers ==
    /\ (Finished /\ pattern_str = P_Nested3 /\ input = Str(<<"b", "c", "c">>))
         => result = "match"
    /\ (result = "match" /\ pattern_str = P_Nested)
         => /\ 3 \in DOMAIN context.captures
            /\ context.captures[3] = Encode(Str(<<"c">>))

----------------------------------------------------------------------------
\* C4: for a pattern of literal characters only and any text, match_text is
\* true iff the pattern occurs in the text as a contiguous substring.
C4_LiteralIsSubstring ==
    (Finished /\ IsLiteralOnly(pattern_str))
        => ((result = "match") <=> Occurs(pattern_str, input))

----------------------------------------------------------------------------
\* C5: a pattern that starts with ^ is tried at offset 0 only, so for every
\* literal string L the pattern ^L$ matches a text iff the text equals L.
C5_AnchoredLiteralIsEquality ==
    \A L \in {SubSeq(pattern_str, 2, Len(pattern_str) - 1)} :
        (Finished /\ Len(pattern_str) >= 2 /\ IsLiteralOnly(L)
           /\ pattern_str = Anchored(L))
            => ((result = "match") <=> (input = L))

----------------------------------------------------------------------------
\* C6: X+ R matches at a text position iff for some k >= 1 the next k
\* characters all satisfy X and R matches right after them; ca+t matches
\* "cat" and "caaat" and not "ct".
C6_OneOrMore ==
    /\ (Finished /\ pattern_str = P_CaPlusT)
         => /\ input \in {T_cat, Str(<<"c", "a", "a", "a", "t">>)}
                 => result = "match"
            /\ input = Str(<<"c", "t">>) => result = "nomatch"
    /\ Finished =>
         \A i \in 1..Len(engine) :
            (engine[i].t = "Plus"
               /\ engine[i].re.t \in {"Char", "Dot", "CharClass",
                                      "NegCharClass", "Digit", "Word"}) =>
              \A p \in 0..Len(input) :
                LET X == engine[i].re
                    R == SubSeq(engine, i + 1, Len(engine))
                IN  match_here(ContextAt(input, p, <<>>, 0),
                               <<engine[i]>> \o R).ok
                      <=> \E k \in 1..(Len(input) - p) :
                            /\ \A j \in 1..k : matches_char(X, input[p + j])
                            /\ match_here(ContextAt(input, p + k, <<>>, 0), R).ok

----------------------------------------------------------------------------
\* C7: when an attempt on one alternative fails, the capture store and the
\* group counter the next alternative sees, and those left in the context
\* when match_here or match_pattern returns false, are the ones that held
\* before the attempt; a capture made in a failed branch is never visible to
\* a backreference in a sibling branch (so ((a)b|\2) matches exactly the
\* texts that ((a)b) matches).
C7_FailedAttemptLeavesContext ==
    /\ result = "nomatch" => context = MatchContext_new(Encode(input))
    /\ Finished =>
         \A S \in Sequences(engine) : \A p \in 0..Len(input) :
            \A captures \in {<<>>, <<Encode(T_a)>>} :
               LET ctx == ContextAt(input, p, captures, Len(captures))
                   h == match_here(ctx, S)
                   m == match_pattern(ctx, S)
               IN  /\ (~h.ok /\ ~h.panic) => h.ctx = ctx
                   /\ (~m.ok /\ ~m.panic) => m.ctx = ctx
    /\ Finished =>
         \A anchor \in {<<>>, Str(<<"^">>)} :
            pattern_str = anchor \o Str(<<"(", "(", "a", ")", "b", "|", "\\", "2", ")">>)
              => ((result = "match")
                    <=> match_text(
                          parse_pattern(anchor \o Str(<<"(", "(", "a", ")", "b", ")">>)).result,
                          input).ok)

\* ^(a)(b)c has failed on "ab" after both groups had recorded a capture in
\* the abandoned attempt.
C7_Witness ==
    /\ pattern_str = Str(<<"^", "(", "a", ")", "(", "b", ")", "c">>)
    /\ input = T_ab
    /\ result = "nomatch"
    /\ match_here(MatchContext_new(Encode(input)),
                  SubSeq(engine, 2, 3)).ctx.captures
         = <<Encode(T_a), Encode(T_b)>>

----------------------------------------------------------------------------
\* The malformed patterns, read off the pattern's chars in one scan with a
\* stack of open groups (frames[1] is the top level; a frame records whether
\* its current sequence has a node yet and how many '|' its group has):
\*   a backslash followed by a char other than d, w, backslash, 1-9, or by
\*   nothing; a '[' with no closing ']'; a '?' or '+' with no node before it
\*   in its sequence; a '(' that is never closed; a second '|' in one group.
ClassStart(chars, i) ==
    IF i + 1 < Len(chars) /\ At(chars, i + 1) = Chr("^") THEN i + 2 ELSE i + 1

ClassClosings(chars, i) ==
    {k \in ClassStart(chars, i)..(Len(chars) - 1) : At(chars, k) = Chr("]")}

Min(S) == CHOOSE x \in S : \A y \in S : x <= y

RECURSIVE Scan(_, _, _)
Scan(chars, i, frames) ==
    IF i >= Len(chars) THEN Len(frames) > 1
    ELSE LET ch == At(chars, i)
             d == Len(frames)
             node == [frames EXCEPT ![d].nodes = TRUE]
         IN
      CASE ch = Chr("\\") ->
             IF i + 1 >= Len(chars) THEN TRUE
             ELSE IF At(chars, i + 1) \notin
                        {Chr("d"), Chr("w"), Chr("\\")} \cup (Chr("1")..Chr("9"))
                  THEN TRUE
             ELSE Scan(chars, i + 2, node)
        [] ch = Chr("[") ->
             IF ClassClosings(chars, i) = {} THEN TRUE
             ELSE Scan(chars, Min(ClassClosings(chars, i)) + 1, node)
        [] ch = Chr("(") ->
             Scan(chars, i + 1, Append(frames, [nodes |-> FALSE, bars |-> 0]))
        [] ch = Chr(")") /\ d > 1 ->
             Scan(chars, i + 1,
                  [SubSeq(frames, 1, d - 1) EXCEPT ![d - 1].nodes = TRUE])
        [] ch = Chr("|") /\ d > 1 ->
             IF frames[d].bars >= 1 THEN TRUE
             ELSE Scan(chars, i + 1,
                       [frames EXCEPT ![d] = [nodes |-> FALSE, bars |-> 1]])
        [] ch = Chr("?") \/ ch = Chr("+") ->
             IF ~frames[d].nodes THEN TRUE ELSE Scan(chars, i + 1, frames)
        [] OTHER -> Scan(chars, i + 1, node)

Malformed(chars) ==
    Scan(chars, 0, <<[nodes |-> FALSE, bars |-> 0]>>)

NodeKinds ==
    {"Char", "Question", "Plus", "Dot", "Start", "End", "CharClass",
     "NegCharClass", "Digit", "Word", "Alternation", "Group", "Backreference"}

\* C8: compiling a malformed pattern ends in an error outcome with no AST and
\* is never reported as a no-match result; every other pattern compiles to
\* an AST.
C8_CompileErrors ==
    pc # "new" =>
        IF Malformed(pattern_str)
        THEN pc = "panicked" /\ engine = NoEngine /\ result = "none"
        ELSE /\ engine # NoEngine
             /\ \A k \in 1..Len(engine) : engine[k].t \in NodeKinds

\* Compiling (a|b|c), a group with two '|', has panicked.
C8_Witness ==
    /\ pattern_str = Str(<<"(", "a", "|", "b", "|", "c", ")">>)
    /\ pc = "panicked"
    /\ engine = NoEngine

----------------------------------------------------------------------------
\* C9: for every AST the compiler produces and every text, multi-byte
\* characters included, match_text returns true or false and no matching
\* step panics.
C9_MatchingIsTotal ==
    (engine # NoEngine /\ pc # "ready") => result \in {"match", "nomatch"}

----------------------------------------------------------------------------
\* C10: an EndAnchor adds the requirement that the remaining text is empty
\* but does not end the sequence: the nodes after it must still match, so a
\* pattern with a literal after the end anchor, such as a$b, matches no text.
C10_NodesAfterEndMustMatch ==
    (Finished /\ \E i \in 1..(Len(engine) - 1) :
                    engine[i].t = "End" /\ engine[i + 1].t = "Char")
        => result # "match"

=============================================================================
